---- MODULE Spec2Model ----
(***************************************************************************)
(* The ilifu user database model (src/models.py): the three tables         *)
(* ilifu_user, project and project_user as declared through SQLAlchemy,    *)
(* the two mapped-class constructors, the schema initializer of the       *)
(* __main__ block, and the INSERT / UPDATE / DELETE statements a session   *)
(* emits for these tables, checked by the column constraints the           *)
(* declarations carry (NOT NULL, UNIQUE, PRIMARY KEY, FOREIGN KEY,         *)
(* server_default, onupdate).                                              *)
(*                                                                         *)
(* A column value is an option: NULL is the empty set and a present value  *)
(* v is the singleton {v}.  The id columns hold plain integers.            *)
(* Columns no property reads (email, password, public_key, first_name,     *)
(* last_name, contact_number, institution, allocated_resources,            *)
(* resource_limits) are left out of the rows.                              *)
(*                                                                         *)
(* The tables meet only in the foreign keys, so the statements are checked *)
(* in five specifications over the same Init and the same actions, each    *)
(* issuing the statements and the column values its properties are about:  *)
(* SpecRows (names and enabled flags), SpecMember (memberships, deletes    *)
(* and the initializer), SpecProject (every column the resource tree       *)
(* reads), SpecTree (a tree of three projects) and SpecTime (the clock).   *)
(***************************************************************************)
EXTENDS Integers, Sequences, FiniteSets, TLC

VARIABLES
    tables,          \* names of the structures that exist in the store
    ilifu_user,      \* rows of table ilifu_user
    project,         \* rows of table project
    project_user,    \* rows of table project_user
    user_id_seq,     \* next value of the serial behind ilifu_user.id
    project_id_seq,  \* next value of the serial behind project.id
    now,             \* the store's clock, what func.now() evaluates to
    lastOp           \* the last statement issued and its outcome

vars == <<tables, ilifu_user, project, project_user,
          user_id_seq, project_id_seq, now, lastOp>>

rows == <<ilifu_user, project, project_user>>

\* ---------------------------------------------------------------- bounds

\* Caps on the two id serials (they only grow, also across deletes).
MaxUsers == 2

MaxProjects == 3

\* Cap on the clock.
MaxTime == 2

\* ---------------------------------------------------------------- values

NULL == {}

Some(v) == {v}

Val(x) == CHOOSE v \in x : TRUE

\* ---------------------------------------------------------------- schema

\* ilifu_user as it would be with username declared without unique=True.
IlifuUserSchemaNoUnique ==
    [ name           |-> "ilifu_user",
      not_null       |-> {"enabled", "username", "created"},
      unique         |-> {{"id"}},
      foreign_keys   |-> {},
      server_default |-> [enabled |-> "false", created |-> "now"],
      onupdate       |-> {"last_updated"} ]

IlifuUserSchema ==
    [ name           |-> "ilifu_user",
      not_null       |-> {"enabled", "username", "created"},
      unique         |-> {{"id"}, {"username"}},
      foreign_keys   |-> {},
      server_default |-> [enabled |-> "false", created |-> "now"],
      onupdate       |-> {"last_updated"} ]

ProjectForeignKeys ==
    { [col |-> "pi_user_id",    ref |-> "ilifu_user"],
      [col |-> "co_pi_user_id", ref |-> "ilifu_user"],
      [col |-> "admin_user_id", ref |-> "ilifu_user"] }

ProjectSchema ==
    [ name           |-> "project",
      not_null       |-> {"enabled", "name", "resource_tree_posn",
                          "parent_resource_fraction", "created"},
      unique         |-> {{"id"}, {"name"}},
      foreign_keys   |-> ProjectForeignKeys,
      server_default |-> [enabled |-> "true", created |-> "now"],
      onupdate       |-> {"last_updated"} ]

ProjectUserForeignKeys ==
    { [col |-> "project_id", ref |-> "project"],
      [col |-> "user_id",    ref |-> "ilifu_user"] }

\* project_user as it would be with its two columns declared without ForeignKey.
ProjectUserSchemaNoForeignKey ==
    [ name           |-> "project_user",
      not_null       |-> {"created", "project_id", "user_id"},
      unique         |-> {{"project_id", "user_id"}},
      foreign_keys   |-> {},
      server_default |-> [created |-> "now"],
      onupdate       |-> {"last_updated"} ]

\* project_user as it would be with its two columns declared without
\* primary_key=True.
ProjectUserSchemaNoPrimaryKey ==
    [ name           |-> "project_user",
      not_null       |-> {"created", "project_id", "user_id"},
      unique         |-> {},
      foreign_keys   |-> ProjectUserForeignKeys,
      server_default |-> [created |-> "now"],
      onupdate       |-> {"last_updated"} ]

ProjectUserSchema ==
    [ name           |-> "project_user",
      not_null       |-> {"created", "project_id", "user_id"},
      unique         |-> {{"project_id", "user_id"}},
      foreign_keys   |-> ProjectUserForeignKeys,
      server_default |-> [created |-> "now"],
      onupdate       |-> {"last_updated"} ]

\* The structures the metadata holds, in dependency order.
Metadata == {"ilifu_user", "project", "project_user"}

Schemas == {IlifuUserSchema, ProjectSchema, ProjectUserSchema}

\* ---------------------------------------------------------------- store

TableRows(t) ==
    CASE t = "ilifu_user"   -> ilifu_user
      [] t = "project"      -> project
      [] t = "project_user" -> project_user

\* What a server_default text evaluates to when the store fills a column.
DefaultValue(txt) ==
    CASE txt = "false" -> Some(FALSE)
      [] txt = "true"  -> Some(TRUE)
      [] txt = "now"   -> Some(now)

\* INSERT: a column the statement gives no value for takes its
\* server_default (the unit of work leaves a None attribute out of the
\* statement when the column has one); the others stay NULL.
ServerDefaults(schema, row) ==
    [c \in DOMAIN row |->
        IF c \in DOMAIN schema.server_default /\ row[c] = NULL
        THEN DefaultValue(schema.server_default[c])
        ELSE row[c]]

\* UPDATE as it would be with no onupdate declared on any column.
OnUpdateNone(schema, row) == row

\* UPDATE: every onupdate column the statement does not set is set to now().
OnUpdate(schema, row) ==
    [c \in DOMAIN row |->
        IF c \in schema.onupdate THEN Some(now) ELSE row[c]]

NotNullViolation(schema, row) ==
    \E c \in schema.not_null : row[c] = NULL

UniqueViolation(schema, row, others) ==
    \E k \in schema.unique : \E r \in others : \A c \in k : r[c] = row[c]

ForeignKeyViolation(schema, row) ==
    \E fk \in schema.foreign_keys :
        /\ row[fk.col] # NULL
        /\ \A r \in TableRows(fk.ref) : Some(r.id) # row[fk.col]

\* The store's verdict on writing `row` beside the rows `others` of its table.
WriteResult(schema, row, others) ==
    IF schema.name \notin tables THEN "undefined_table"
    ELSE IF NotNullViolation(schema, row) THEN "not_null_violation"
    ELSE IF UniqueViolation(schema, row, others) THEN "unique_violation"
    ELSE IF ForeignKeyViolation(schema, row) THEN "foreign_key_violation"
    ELSE "ok"

\* Whether some row still references row `id` of table `t` (no ondelete is
\* declared on any foreign key, so the store refuses the DELETE).
Referenced(t, id) ==
    \E schema \in Schemas : \E fk \in schema.foreign_keys :
        /\ fk.ref = t
        /\ \E r \in TableRows(schema.name) : r[fk.col] = Some(id)

DeleteResult(t, id) ==
    IF Referenced(t, id) THEN "foreign_key_violation" ELSE "ok"

NoOp == [op |-> "none", id |-> 0, args |-> NULL, res |-> "ok"]

\* A store the initializer may meet: none, some or all of the structures,
\* closed under the foreign keys between them, and no rows yet.
Init ==
    /\ tables \in { {}, {"ilifu_user"}, {"ilifu_user", "project"}, Metadata }
    /\ ilifu_user = {}
    /\ project = {}
    /\ project_user = {}
    /\ user_id_seq = 1
    /\ project_id_seq = 1
    /\ now = 1
    /\ lastOp = NoOp

\* ---------------------------------------------------------------- schema initializer

\* The initializer as it would be if it dropped what exists before creating.
CreateAllDropFirst ==
    /\ tables' = Metadata
    /\ ilifu_user' = {}
    /\ project' = {}
    /\ project_user' = {}
    /\ lastOp' = [op |-> "create_all", id |-> 0, args |-> NULL, res |-> "ok"]
    /\ UNCHANGED <<user_id_seq, project_id_seq, now>>

\* Base.metadata.create_all(engine): create each structure that is absent.
CreateAll ==
    /\ tables' = tables \cup {t \in Metadata : t \notin tables}
    /\ lastOp' = [op |-> "create_all", id |-> 0, args |-> NULL, res |-> "ok"]
    /\ UNCHANGED <<rows, user_id_seq, project_id_seq, now>>

\* ---------------------------------------------------------------- ilifu_user

\* The constructor as it would be with enabled=True as the default.
IlifuUser_initEnabled(username, enabled) ==
    [ id           |-> 0,
      enabled      |-> IF enabled.given THEN enabled.value ELSE Some(TRUE),
      username     |-> username,
      created      |-> NULL,
      last_updated |-> NULL ]

\* IlifuUser(username, ..., enabled=False); enabled is [given, value].
IlifuUser_init(username, enabled) ==
    [ id           |-> 0,
      enabled      |-> IF enabled.given THEN enabled.value ELSE Some(FALSE),
      username     |-> username,
      created      |-> NULL,
      last_updated |-> NULL ]

\* session.add(IlifuUser(...)); session.commit()
InsertUser(username, enabled) ==
    LET obj == IlifuUser_init(username, enabled)
        row == ServerDefaults(IlifuUserSchema, [obj EXCEPT !.id = user_id_seq])
        res == WriteResult(IlifuUserSchema, row, ilifu_user)
    IN  /\ user_id_seq <= MaxUsers
        /\ lastOp' = [op |-> "InsertUser", id |-> user_id_seq,
                      args |-> [username |-> username, enabled |-> enabled],
                      res |-> res]
        /\ IF res = "ok"
           THEN /\ ilifu_user' = ilifu_user \cup {row}
                /\ user_id_seq' = user_id_seq + 1
           ELSE UNCHANGED <<ilifu_user, user_id_seq>>
        /\ UNCHANGED <<tables, project, project_user, project_id_seq, now>>

\* user.<col> = val; session.commit()
UpdateUser(id, col, val) ==
    \E r \in ilifu_user :
        /\ r.id = id
        /\ r[col] # val
        /\ LET row == OnUpdate(IlifuUserSchema, [r EXCEPT ![col] = val])
               res == WriteResult(IlifuUserSchema, row, ilifu_user \ {r})
           IN  /\ lastOp' = [op |-> "UpdateUser", id |-> id,
                             args |-> [col |-> col, val |-> val], res |-> res]
               /\ IF res = "ok"
                  THEN ilifu_user' = (ilifu_user \ {r}) \cup {row}
                  ELSE UNCHANGED ilifu_user
        /\ UNCHANGED <<tables, project, project_user,
                       user_id_seq, project_id_seq, now>>

\* session.delete(user); session.commit()
DeleteUser(id) ==
    \E r \in ilifu_user :
        /\ r.id = id
        /\ LET res == DeleteResult("ilifu_user", id)
           IN  /\ lastOp' = [op |-> "DeleteUser", id |-> id,
                             args |-> NULL, res |-> res]
               /\ IF res = "ok"
                  THEN ilifu_user' = ilifu_user \ {r}
                  ELSE UNCHANGED ilifu_user
        /\ UNCHANGED <<tables, project, project_user,
                       user_id_seq, project_id_seq, now>>

\* ---------------------------------------------------------------- project

\* Project(name, pi_user_id, resource_tree_posn, parent_resource_fraction):
\* the constructor sets neither enabled nor the co-PI and admin references.
Project_init(name, pi_user_id, resource_tree_posn, parent_resource_fraction) ==
    [ id                       |-> 0,
      enabled                  |-> NULL,
      name                     |-> name,
      pi_user_id               |-> pi_user_id,
      co_pi_user_id            |-> NULL,
      admin_user_id            |-> NULL,
      resource_tree_posn       |-> resource_tree_posn,
      parent_resource_fraction |-> parent_resource_fraction,
      created                  |-> NULL,
      last_updated             |-> NULL ]

\* The projects whose path is `path` plus one trailing integer.
ChildrenOf(path, projects) ==
    { p \in projects :
        /\ p.resource_tree_posn # NULL
        /\ LET q == Val(p.resource_tree_posn)
           IN  /\ Len(q) = Len(path) + 1
               /\ SubSeq(q, 1, Len(path)) = path }

RECURSIVE SumOfFractions(_)
SumOfFractions(projects) ==
    IF projects = {} THEN 0
    ELSE LET p == CHOOSE x \in projects : TRUE
         IN  Val(p.parent_resource_fraction) + SumOfFractions(projects \ {p})

\* Whether the children of some parent path are granted more than the whole.
OverAllocated(projects) ==
    \E p \in projects :
        LET q == Val(p.resource_tree_posn)
            parent == SubSeq(q, 1, Len(q) - 1)
        IN  SumOfFractions(ChildrenOf(parent, projects)) > 100

\* The insert as it would be if the sibling fractions were validated before
\* the row is written.
InsertProjectValidated(name, pi_user_id, resource_tree_posn, parent_resource_fraction) ==
    LET obj == Project_init(name, pi_user_id, resource_tree_posn,
                            parent_resource_fraction)
        row == ServerDefaults(ProjectSchema, [obj EXCEPT !.id = project_id_seq])
        col == WriteResult(ProjectSchema, row, project)
        res == IF col = "ok" /\ OverAllocated(project \cup {row})
               THEN "check_violation" ELSE col
    IN  /\ project_id_seq <= MaxProjects
        /\ lastOp' = [op |-> "InsertProject", id |-> project_id_seq,
                      args |-> [name |-> name], res |-> res]
        /\ IF res = "ok"
           THEN /\ project' = project \cup {row}
                /\ project_id_seq' = project_id_seq + 1
           ELSE UNCHANGED <<project, project_id_seq>>
        /\ UNCHANGED <<tables, ilifu_user, project_user, user_id_seq, now>>

\* session.add(Project(...)); session.commit()
InsertProject(name, pi_user_id, resource_tree_posn, parent_resource_fraction) ==
    LET obj == Project_init(name, pi_user_id, resource_tree_posn,
                            parent_resource_fraction)
        row == ServerDefaults(ProjectSchema, [obj EXCEPT !.id = project_id_seq])
        res == WriteResult(ProjectSchema, row, project)
    IN  /\ project_id_seq <= MaxProjects
        /\ lastOp' = [op |-> "InsertProject", id |-> project_id_seq,
                      args |-> [name |-> name], res |-> res]
        /\ IF res = "ok"
           THEN /\ project' = project \cup {row}
                /\ project_id_seq' = project_id_seq + 1
           ELSE UNCHANGED <<project, project_id_seq>>
        /\ UNCHANGED <<tables, ilifu_user, project_user, user_id_seq, now>>

\* project.<col> = val; session.commit()
UpdateProject(id, col, val) ==
    \E r \in project :
        /\ r.id = id
        /\ r[col] # val
        /\ LET row == OnUpdate(ProjectSchema, [r EXCEPT ![col] = val])
               res == WriteResult(ProjectSchema, row, project \ {r})
           IN  /\ lastOp' = [op |-> "UpdateProject", id |-> id,
                             args |-> [col |-> col, val |-> val], res |-> res]
               /\ IF res = "ok"
                  THEN project' = (project \ {r}) \cup {row}
                  ELSE UNCHANGED project
        /\ UNCHANGED <<tables, ilifu_user, project_user,
                       user_id_seq, project_id_seq, now>>

\* session.delete(project); session.commit()
DeleteProject(id) ==
    \E r \in project :
        /\ r.id = id
        /\ LET res == DeleteResult("project", id)
           IN  /\ lastOp' = [op |-> "DeleteProject", id |-> id,
                             args |-> NULL, res |-> res]
               /\ IF res = "ok"
                  THEN project' = project \ {r}
                  ELSE UNCHANGED project
        /\ UNCHANGED <<tables, ilifu_user, project_user,
                       user_id_seq, project_id_seq, now>>

\* ---------------------------------------------------------------- project_user

\* t_project_user.insert().values(project_id=..., user_id=...)
InsertMembership(project_id, user_id) ==
    LET row == ServerDefaults(ProjectUserSchema,
                   [ created |-> NULL, last_updated |-> NULL,
                     project_id |-> project_id, user_id |-> user_id ])
        res == WriteResult(ProjectUserSchema, row, project_user)
    IN  /\ lastOp' = [op |-> "InsertMembership", id |-> 0,
                      args |-> [project_id |-> project_id, user_id |-> user_id],
                      res |-> res]
        /\ IF res = "ok"
           THEN project_user' = project_user \cup {row}
           ELSE UNCHANGED project_user
        /\ UNCHANGED <<tables, ilifu_user, project,
                       user_id_seq, project_id_seq, now>>

\* t_project_user.update().where(<the row r>).values(<col>=val)
UpdateMembership(r, col, val) ==
    /\ r \in project_user
    /\ LET row == OnUpdate(ProjectUserSchema, [r EXCEPT ![col] = val])
           res == WriteResult(ProjectUserSchema, row, project_user \ {r})
       IN  /\ lastOp' = [op |-> "UpdateMembership", id |-> 0,
                         args |-> [project_id |-> r.project_id,
                                   user_id |-> r.user_id,
                                   col |-> col, val |-> val],
                         res |-> res]
           /\ IF res = "ok"
              THEN project_user' = (project_user \ {r}) \cup {row}
              ELSE UNCHANGED project_user
    /\ UNCHANGED <<tables, ilifu_user, project,
                   user_id_seq, project_id_seq, now>>

\* t_project_user.delete().where(<the row r>)
DeleteMembership(r) ==
    /\ r \in project_user
    /\ project_user' = project_user \ {r}
    /\ lastOp' = [op |-> "DeleteMembership", id |-> 0,
                  args |-> [project_id |-> r.project_id, user_id |-> r.user_id],
                  res |-> "ok"]
    /\ UNCHANGED <<tables, ilifu_user, project,
                   user_id_seq, project_id_seq, now>>

\* ---------------------------------------------------------------- clock

\* Time passes between statements.
Tick ==
    /\ now < MaxTime
    /\ now' = now + 1
    /\ lastOp' = [op |-> "tick", id |-> 0, args |-> NULL, res |-> "ok"]
    /\ UNCHANGED <<tables, rows, user_id_seq, project_id_seq>>

\* ---------------------------------------------------------------- inputs

Usernames == {Some("alice"), Some("bob")}

ProjectNames == {Some("root"), Some("IDIA"), Some("CBIO")}

Booleans == {Some(TRUE), Some(FALSE)}

\* The constructor called without enabled.
EnabledOmitted == [given |-> FALSE, value |-> NULL]

EnabledArgs ==
    {EnabledOmitted} \cup {[given |-> TRUE, value |-> v] : v \in Booleans \cup {NULL}}

UserIds == 1..MaxUsers

ProjectIds == 1..MaxProjects

\* The ids a membership statement names: those of the first two rows of
\* either table (rows that may not exist, or no longer), or none.
Refs == {NULL, Some(1), Some(2)}

\* The root of the resource tree and the paths below it (module docstring).
RootPath == <<1>>

Paths == {Some(RootPath), Some(<<1, 1>>), Some(<<1, 2>>)}

\* parent_resource_fraction in percent: the shares of the docstring's tree
\* are whole percentages.
Fractions == {Some(50), Some(100)}

\* Values a Float column takes as well.
OtherFractions == {Some(0), Some(120)}

\* ---------------------------------------------------------------- specifications

\* Users and projects written through the constructors and renamed,
\* enabled and disabled afterwards.
NextRows ==
    \/ CreateAll
    \/ \E u \in Usernames \cup {NULL}, e \in EnabledArgs : InsertUser(u, e)
    \/ \E id \in UserIds, u \in Usernames \cup {NULL} : UpdateUser(id, "username", u)
    \/ \E id \in UserIds, v \in Booleans \cup {NULL} : UpdateUser(id, "enabled", v)
    \/ \E n \in {Some("root"), Some("IDIA"), NULL} :
           InsertProject(n, NULL, Some(RootPath), Some(100))
    \/ \E id \in ProjectIds, n \in {Some("root"), Some("IDIA"), NULL} :
           UpdateProject(id, "name", n)
    \/ \E id \in ProjectIds, v \in Booleans \cup {NULL} : UpdateProject(id, "enabled", v)

SpecRows == Init /\ [][NextRows]_vars

\* Memberships between users and projects that come and go.
NextMember ==
    \/ CreateAll
    \/ \E u \in Usernames : InsertUser(u, EnabledOmitted)
    \/ \E id \in UserIds : DeleteUser(id)
    \/ \E n \in {Some("root"), Some("IDIA")} :
           InsertProject(n, NULL, Some(RootPath), Some(100))
    \/ \E id \in ProjectIds : DeleteProject(id)
    \/ \E p \in Refs, u \in Refs : InsertMembership(p, u)
    \/ \E r \in project_user, c \in {"project_id", "user_id"}, v \in Refs :
           UpdateMembership(r, c, v)
    \/ \E r \in project_user : DeleteMembership(r)

SpecMember == Init /\ [][NextMember]_vars

\* Projects under every combination of the columns the resource tree reads.
NextProject ==
    \/ CreateAll
    \/ InsertUser(Some("alice"), EnabledOmitted)
    \/ \E n \in {Some("root"), Some("IDIA")}, pi \in {NULL, Some(1)},
          p \in {NULL, Some(RootPath), Some(<<1, 1>>)},
          f \in {Some(100)} \cup OtherFractions \cup {NULL} :
           InsertProject(n, pi, p, f)
    \/ \E id \in ProjectIds, pi \in {NULL, Some(1)} : UpdateProject(id, "pi_user_id", pi)
    \/ \E id \in ProjectIds, p \in {NULL, Some(RootPath), Some(<<1, 1>>)} :
           UpdateProject(id, "resource_tree_posn", p)
    \/ \E id \in ProjectIds, f \in {Some(100)} \cup OtherFractions \cup {NULL} :
           UpdateProject(id, "parent_resource_fraction", f)

SpecProject == Init /\ [][NextProject]_vars

\* A resource tree built and re-allocated with fractions in (0, 100].
NextTree ==
    \/ CreateAll
    \/ \E n \in ProjectNames, p \in Paths, f \in Fractions :
           InsertProject(n, NULL, p, f)
    \/ \E id \in ProjectIds, f \in Fractions :
           UpdateProject(id, "parent_resource_fraction", f)

SpecTree == Init /\ [][NextTree]_vars

\* One row of each table written and rewritten while the clock runs.
NextTime ==
    \/ CreateAll
    \/ Tick
    \/ InsertUser(Some("alice"), EnabledOmitted)
    \/ \E v \in Booleans : UpdateUser(1, "enabled", v)
    \/ InsertProject(Some("root"), NULL, Some(RootPath), Some(100))
    \/ \E f \in Fractions : UpdateProject(1, "parent_resource_fraction", f)
    \/ InsertMembership(Some(1), Some(1))
    \/ \E r \in project_user : UpdateMembership(r, "user_id", Some(1))

SpecTime == Init /\ [][NextTime]_vars

\* ---------------------------------------------------------------- properties

UsernameTaken(v, except) ==
    \E u \in ilifu_user : u.id # except /\ u.username = v

NameTaken(v, except) ==
    \E p \in project : p.id # except /\ p.name = v

UniqueNames ==
    /\ \A u, v \in ilifu_user : u.username = v.username => u = v
    /\ \A p, q \in project : p.name = q.name => p = q

DuplicateRejected ==
    LET op == lastOp'
        rejected == op.res = "unique_violation" /\ rows' = rows
    IN  /\ ( op.op = "InsertUser" /\ UsernameTaken(op.args.username, 0) )
                => rejected
        /\ ( /\ op.op = "UpdateUser"
             /\ op.args.col = "username"
             /\ UsernameTaken(op.args.val, op.id) ) => rejected
        /\ ( op.op = "InsertProject" /\ NameTaken(op.args.name, 0) )
                => rejected
        /\ ( /\ op.op = "UpdateProject"
             /\ op.args.col = "name"
             /\ NameTaken(op.args.val, op.id) ) => rejected

\* C1: no two users ever share a username and no two projects a name, and a
\* write that would give a second user an existing username, or a second
\* project an existing name, ends in a unique violation with the rows of all
\* three tables as they were.
C1_UniqueNames == []UniqueNames /\ [][DuplicateRejected]_vars

\* Both tables hold two rows and the last insert of a project was refused
\* for its name.
C1_Witness ==
    /\ Cardinality(ilifu_user) = 2
    /\ Cardinality(project) = 2
    /\ lastOp.op = "InsertProject"
    /\ lastOp.res = "unique_violation"

EnabledNeverNull ==
    /\ \A u \in ilifu_user : u.enabled \in Booleans
    /\ \A p \in project : p.enabled \in Booleans

EnabledDefaults ==
    LET op == lastOp'
    IN  /\ ( op.op = "InsertUser" /\ op.res = "ok" /\ ~op.args.enabled.given )
                => \E u \in ilifu_user' \ ilifu_user :
                       u.id = op.id /\ u.enabled = Some(FALSE)
        /\ ( op.op = "InsertProject" /\ op.res = "ok" )
                => \E q \in project' \ project :
                       q.id = op.id /\ q.enabled = Some(TRUE)

StaysDisabled ==
    \A u \in ilifu_user : \A v \in ilifu_user' :
        ( u.id = v.id /\ u.enabled = Some(FALSE) /\ v.enabled # Some(FALSE) )
            => /\ lastOp'.op = "UpdateUser"
               /\ lastOp'.id = u.id
               /\ lastOp'.args = [col |-> "enabled", val |-> Some(TRUE)]

\* C9: a user constructed without an enabled argument is stored disabled
\* and stays so until an update sets enabled to true on that very row; a
\* project, whose constructor takes no enabled argument, is stored enabled;
\* and no stored row has a null enabled flag.
C9_EnabledDefaults ==
    []EnabledNeverNull /\ [][EnabledDefaults /\ StaysDisabled]_vars

\* A user created disabled by default has just been enabled explicitly,
\* beside a project that is enabled by default.
C9_Witness ==
    /\ lastOp.op = "UpdateUser"
    /\ lastOp.res = "ok"
    /\ lastOp.args = [col |-> "enabled", val |-> Some(TRUE)]
    /\ \E u \in ilifu_user : u.id = lastOp.id /\ u.enabled = Some(TRUE)
    /\ \E u \in ilifu_user : u.enabled = Some(FALSE)
    /\ \E q \in project : q.enabled = Some(TRUE)

ProjectExists(ref) == \E q \in project : Some(q.id) = ref

UserExists(ref) == \E u \in ilifu_user : Some(u.id) = ref

MembershipsReferToRows ==
    \A m \in project_user :
        ProjectExists(m.project_id) /\ UserExists(m.user_id)

DanglingRejected ==
    LET op == lastOp'
    IN  /\ ( /\ op.op = "InsertMembership"
             /\ \/ op.args.project_id # NULL /\ ~ProjectExists(op.args.project_id)
                \/ op.args.user_id # NULL /\ ~UserExists(op.args.user_id) )
                => /\ op.res \in {"foreign_key_violation", "not_null_violation",
                                  "undefined_table"}
                   /\ rows' = rows
        /\ ( /\ op.op = "UpdateMembership"
             /\ op.args.val # NULL
             /\ \/ op.args.col = "project_id" /\ ~ProjectExists(op.args.val)
                \/ op.args.col = "user_id" /\ ~UserExists(op.args.val) )
                => /\ op.res = "foreign_key_violation"
                   /\ rows' = rows

\* C2: every membership row refers to an existing project and an existing
\* user, and a membership write that names a project id or a user id no row
\* carries is refused with the rows of all three tables as they were.
C2_ForeignKeys == []MembershipsReferToRows /\ [][DanglingRejected]_vars

\* An insert was refused for its dangling reference while the table held a
\* membership, a user and a project.
C2_Witness ==
    /\ lastOp.op = "InsertMembership"
    /\ lastOp.res = "foreign_key_violation"
    /\ project_user # {}

\* C3: (project_id, user_id) identifies a membership row: no two rows carry
\* the same pair and neither component of a stored row is null.
C3_CompositeKey ==
    /\ \A m, n \in project_user :
           ( m.project_id = n.project_id /\ m.user_id = n.user_id ) => m = n
    /\ \A m \in project_user : m.project_id # NULL /\ m.user_id # NULL

\* Many to many: one user is a member of two projects and one project has
\* two users.
C3_Witness ==
    /\ \E m, n \in project_user :
           m.user_id = n.user_id /\ m.project_id # n.project_id
    /\ \E m, n \in project_user :
           m.project_id = n.project_id /\ m.user_id # n.user_id

InitializerStep ==
    lastOp'.op = "create_all"
        => /\ rows' = rows
           /\ tables \subseteq tables'
           /\ tables' = Metadata
           /\ Metadata \subseteq tables => tables' = tables
           /\ UNCHANGED <<user_id_seq, project_id_seq>>

\* C4: the schema initializer leaves every existing structure and every row
\* alone and ends with exactly the three structures; where all three exist
\* already it changes nothing, so a second run changes nothing.
C4_InitializerIdempotent == [][InitializerStep]_vars

\* The initializer has just run on a store that holds rows in all three
\* tables.
C4_Witness ==
    /\ lastOp.op = "create_all"
    /\ ilifu_user # {}
    /\ project # {}
    /\ project_user # {}

\* A rewritten row keeps its creation time and carries the time of the
\* statement as its last update.
Restamped(old, new) ==
    new.created = old.created /\ new.last_updated = Some(now)

SamePair(m, n) == m.project_id = n.project_id /\ m.user_id = n.user_id

TimestampStep ==
    LET op == lastOp'
    IN  \* a row is created at the time of its INSERT
        /\ \A u \in ilifu_user' \ ilifu_user :
               (\A v \in ilifu_user : v.id # u.id) => u.created = Some(now)
        /\ \A q \in project' \ project :
               (\A r \in project : r.id # q.id) => q.created = Some(now)
        /\ \A m \in project_user' \ project_user :
               op.op = "InsertMembership" => m.created = Some(now)
        \* a row that changes does so by an UPDATE of it and is restamped
        /\ \A u \in ilifu_user : \A v \in ilifu_user' :
               ( u.id = v.id /\ u # v )
                   => op.op = "UpdateUser" /\ op.id = u.id /\ Restamped(u, v)
        /\ \A q \in project : \A r \in project' :
               ( q.id = r.id /\ q # r )
                   => op.op = "UpdateProject" /\ op.id = q.id /\ Restamped(q, r)
        /\ \A m \in project_user : \A n \in project_user' :
               ( SamePair(m, n) /\ m # n )
                   => op.op = "UpdateMembership" /\ Restamped(m, n)
        \* every UPDATE that succeeds restamps its row
        /\ ( op.op = "UpdateUser" /\ op.res = "ok" )
               => \E u \in ilifu_user : \E v \in ilifu_user' :
                      u.id = op.id /\ v.id = op.id /\ Restamped(u, v)
        /\ ( op.op = "UpdateProject" /\ op.res = "ok" )
               => \E q \in project : \E r \in project' :
                      q.id = op.id /\ r.id = op.id /\ Restamped(q, r)
        /\ ( op.op = "UpdateMembership" /\ op.res = "ok" )
               => \E m \in project_user : \E n \in project_user' :
                      /\ m.project_id = op.args.project_id
                      /\ m.user_id = op.args.user_id
                      /\ n[op.args.col] = op.args.val
                      /\ Restamped(m, n)

\* C8: in each of the three tables a row's created column is the time of its
\* INSERT and no later statement changes it, and every UPDATE of a row sets
\* its last_updated column to the time of that UPDATE (rows no statement
\* touches keep both).
C8_Timestamps == [][TimestampStep]_vars

\* Each table holds a row created at one time and last updated at a later
\* one.
C8_Witness ==
    /\ \E u \in ilifu_user :
           u.last_updated # NULL /\ Val(u.last_updated) > Val(u.created)
    /\ \E q \in project :
           q.last_updated # NULL /\ Val(q.last_updated) > Val(q.created)
    /\ \E m \in project_user :
           m.last_updated # NULL /\ Val(m.last_updated) > Val(m.created)

ParentPath(q) == SubSeq(q, 1, Len(q) - 1)

WellFormed(projects) ==
    /\ \A q, r \in projects :
           q.resource_tree_posn = r.resource_tree_posn => q = r
    /\ \A q \in projects :
           q.resource_tree_posn # Some(RootPath)
               => Cardinality({ r \in projects :
                      r.resource_tree_posn
                          = Some(ParentPath(Val(q.resource_tree_posn))) }) = 1

\* In SpecTree every project write gives the NOT NULL columns a value and
\* names no PI: the column constraints refuse it only when the table is
\* missing or the name is taken.
ProjectWriteAccepted ==
    LET op == lastOp'
    IN  /\ op.op = "InsertProject"
               => /\ op.res = "ok"
                      <=> ( "project" \in tables /\ ~NameTaken(op.args.name, 0) )
                  /\ op.res = "ok"
                      => \E q \in project' \ project :
                             q.id = op.id /\ q.name = op.args.name
        /\ op.op = "UpdateProject"
               => /\ op.res = "ok"
                  /\ \E q \in project' :
                         q.id = op.id /\ q[op.args.col] = op.args.val

\* C10: no project write is refused for what the fractions of siblings add
\* up to: an insert or an update that satisfies the column constraints is
\* stored whatever the sum becomes, so over-allocated states are reached.
C10_SumNotEnforced == [][ProjectWriteAccepted]_vars

\* In a well-formed tree a child's fraction has just been raised from 50 to
\* 100 percent under a parent whose two children summed to exactly 100
\* percent before: they now sum to 150.
C10_Witness ==
    /\ WellFormed(project)
    /\ lastOp.op = "UpdateProject"
    /\ lastOp.res = "ok"
    /\ lastOp.args = [col |-> "parent_resource_fraction", val |-> Some(100)]
    /\ \E c \in project : \E parent \in project :
           /\ c.id = lastOp.id
           /\ parent.resource_tree_posn
                  = Some(ParentPath(Val(c.resource_tree_posn)))
           /\ Cardinality(ChildrenOf(Val(parent.resource_tree_posn), project)) = 2
           /\ SumOfFractions(ChildrenOf(Val(parent.resource_tree_posn), project))
                  = 150

\* C5: every project but the root has a principal investigator.
C5_PiNullOnlyForRoot ==
    \A q \in project :
        q.resource_tree_posn # Some(RootPath) => q.pi_user_id # NULL

\* C6: no two projects share a path and every project but the root has
\* exactly one parent, the project at its path less the last element (so
\* the length of a path is the depth of its node).
C6_TreeWellFormed == WellFormed(project)

\* C7: every stored parent_resource_fraction is a number in (0, 100].
C7_FractionInRange ==
    \A q \in project :
        /\ q.parent_resource_fraction # NULL
        /\ Val(q.parent_resource_fraction) > 0
        /\ Val(q.parent_resource_fraction) <= 100

====
